---- MODULE Spec2Model ----
(***************************************************************************)
(* State-machine model of src/server.py: the ArbitrageBot object (run      *)
(* flag, token catalog), the background task run_bot with the coroutines   *)
(* it awaits (fetch_solana_tokens, scan_for_opportunities,                 *)
(* get_dexscreener_price), get_jupiter_quote, and the FastAPI handlers.    *)
(*                                                                         *)
(* asyncio runs one coroutine at a time and switches only at an await, so  *)
(* one action of the loop task is the code between two suspension points,  *)
(* and a handler that contains no await is one action. Every HTTP call is  *)
(* two suspension points, session.get and resp.json(): a lookup of         *)
(* scan_for_opportunities is two actions, and the /jup-test handler, which *)
(* awaits get_jupiter_quote, is three. Any number of /jup-test requests    *)
(* can be in flight together.                                              *)
(***************************************************************************)
EXTENDS Integers, Sequences, FiniteSets, TLC

VARIABLES
    running,     \* bot.running
    tokens,      \* bot.tokens: insertion-ordered dict, as a sequence of [symbol, address]
    pc,          \* where the run_bot task is suspended
    caller,      \* who awaits fetch_solana_tokens: "run_bot" or "direct" (a direct call of the method)
    before,      \* bot.tokens as it was when fetch_solana_tokens was entered
    attempt,     \* loop variable of `for attempt in range(5)`; 0 while fetch_solana_tokens is not being run
    elapsed,     \* completed `asyncio.sleep(180)` ticks since the catalog was last refreshed (saturating)
    flagRead,    \* value of bot.running read by `if bot.running:` on the current tick
    cycles,      \* scan_for_opportunities calls made on the current tick
    scanList,    \* tokens_to_scan of the cycle in progress
    idx,         \* 1-based position in tokens_to_scan of the entry being processed
    ds_price,    \* local ds_price of the entry being processed
    outcome,     \* branch taken by the entry processed last in this cycle
    fetched,     \* how the last fetch_solana_tokens call ended: "loaded" (line 140) or "fallback" (line 150)
    resp,        \* last HTTP response sent by the control plane
    prev,        \* the control-plane response sent before resp
    scanning,    \* scan_for_opportunities coroutines entered and not yet left
    refreshing,  \* fetch_solana_tokens coroutines entered and not yet left
    receipt,     \* what the trade executor did for the entry evaluated last: "none" when it was not invoked
    jup,         \* a get_jupiter_quote call awaited on its own: the provider's answer and the value returned
    jupPc        \* the /jup-test handlers in flight: how many are suspended at session.get
                 \* (line 233) and how many at resp.json() (line 242)

vars == <<running, tokens, pc, caller, before, attempt, elapsed, flagRead, cycles,
          scanList, idx, ds_price, outcome, fetched, resp, prev, scanning, refreshing,
          receipt, jup, jupPc>>

scanVars == <<flagRead, cycles, scanList, idx, ds_price, outcome, scanning>>
ctlVars == <<running, resp, prev>>

(***************************************************************************)
(* Bounds of the model.                                                    *)
(***************************************************************************)
\* longest `data` list returned by the discovery provider
MaxCoins == 2
\* refresh period of the specification (5-10 minutes), in 180 s scheduler ticks;
\* `elapsed` saturates here
RefreshPeriodTicks == 2
\* most /jup-test requests in flight at once
MaxJupTests == 2

(***************************************************************************)
(* Program constants.                                                      *)
(***************************************************************************)
\* faulty variant of Attempts: one pass too many
Attempts_six == 5 + 1

\* `for attempt in range(5)`
Attempts == 5
ScanLimit == 30
MinMarketCap == 1000000
MinLiquidity == 50000
HighLiquidity == 100000
RateLimited == 429
OK == 200
Unauthorized == 401
API_KEY == "change_me"

Credentials == {API_KEY, "wrong_key"}

\* JSON values: a number, null, or an absent key
Num(n) == [k |-> "num", v |-> n]
Null == [k |-> "null", v |-> 0]
Missing == [k |-> "missing", v |-> 0]

\* faulty variant of Seed: the fallback catalog is empty
Seed_empty == <<>>

\* the fallback catalog of lines 152-157
Seed ==
    << [symbol |-> "BONK",   address |-> "DezXAZ8z7PnrnRJjz3wXBoRgixCa6xjnB7YaB1pPB263"],
       [symbol |-> "WIF",    address |-> "EKpQGSJtjMFqKZ9KQanSqYXRcF8fBopzLHYxdM65zcjm"],
       [symbol |-> "POPCAT", address |-> "7GCihgDB8fe6KNjn2MYtkzZcRjQy3t9GHdC8uHYmW2hr"],
       [symbol |-> "TRUMP",  address |-> "6p6xgHyF7AeE6TZkSmFsko444wqoP15icUSqi2jfGiPN"] >>

SeqsUpTo(S, n) == UNION {[1..m -> S] : m \in 0..n}

(***************************************************************************)
(* fetch_solana_tokens: the discovery provider's answers and the catalog   *)
(* built from a payload.                                                   *)
(***************************************************************************)
Platforms(k, addr) == [k |-> k, solana |-> addr]
Coin(cap, platforms, symbol) == [market_cap |-> cap, platforms |-> platforms, symbol |-> symbol]

\* coins of a /coins/markets payload; "" stands for an absent string
CoinKinds ==
    { Coin(Num(1000000), Platforms("obj", "addrA"), "aaa"),
      Coin(Num(2000000), Platforms("obj", "addrB"), "bbb"),
      Coin(Num(999999),  Platforms("obj", "addrS"), "sml"),
      Coin(Missing,      Platforms("obj", "addrM"), "mis"),
      Coin(Num(2000000), Platforms("obj", ""),      "eth"),
      Coin(Num(2000000), Platforms("missing", ""),  "btc"),
      Coin(Null,         Platforms("obj", "addrN"), "nul"),
      Coin(Num(2000000), Platforms("null", ""),     "npl"),
      Coin(Num(2000000), Platforms("obj", "addrX"), "") }

\* str.upper()
Upper(s) ==
    CASE s = "aaa" -> "AAA" [] s = "bbb" -> "BBB" [] s = "sml" -> "SML"
      [] s = "mis" -> "MIS" [] s = "eth" -> "ETH" [] s = "btc" -> "BTC"
      [] s = "nul" -> "NUL" [] s = "npl" -> "NPL" [] OTHER -> s

\* self.tokens[symbol] = {"address": sol_address} on an insertion-ordered dict
DictSet(t, sym, addr) ==
    IF \E i \in 1..Len(t) : t[i].symbol = sym
    THEN [i \in 1..Len(t) |-> IF t[i].symbol = sym THEN [symbol |-> sym, address |-> addr] ELSE t[i]]
    ELSE Append(t, [symbol |-> sym, address |-> addr])

\* the body of `for coin in data:` on one coin, t being self.tokens.
\* raised: an exception leaves the loop (with self.tokens as it is).
ProcessCoin(coin, t) ==
    LET market_cap == IF coin.market_cap.k = "missing" THEN Num(0) ELSE coin.market_cap
    IN  IF market_cap.k = "null" THEN [tokens |-> t, raised |-> TRUE]
        ELSE IF market_cap.v < MinMarketCap THEN [tokens |-> t, raised |-> FALSE]
        ELSE IF coin.platforms.k = "null" THEN [tokens |-> t, raised |-> TRUE]
        ELSE IF coin.platforms.k = "missing" \/ coin.platforms.solana = ""
             THEN [tokens |-> t, raised |-> FALSE]
        ELSE IF coin.symbol = "" THEN [tokens |-> t, raised |-> TRUE]
        ELSE [tokens |-> DictSet(t, Upper(coin.symbol), coin.platforms.solana), raised |-> FALSE]

\* `for coin in data:` from coin i on, t being self.tokens so far
RECURSIVE ProcessCoins(_, _, _)
ProcessCoins(data, i, t) ==
    IF i > Len(data) THEN [tokens |-> t, raised |-> FALSE]
    ELSE LET r == ProcessCoin(data[i], t)
         IN  IF r.raised THEN r ELSE ProcessCoins(data, i + 1, r.tokens)

\* body of a 200 answer: unparsable, a JSON object (an error document), or a list of coins
DiscoveryBodies ==
    {[k |-> "json_error", data |-> <<>>], [k |-> "object", data |-> <<>>]}
    \cup {[k |-> "list", data |-> d] : d \in SeqsUpTo(CoinKinds, MaxCoins)}

\* lines 110-140 on a body: the exception of resp.json() leaves self.tokens alone;
\* otherwise self.tokens is reset and rebuilt
ProcessPayload(body, t) ==
    CASE body.k = "json_error" -> [tokens |-> t, raised |-> TRUE]
      [] body.k = "object"     -> [tokens |-> <<>>, raised |-> TRUE]
      [] OTHER                 -> ProcessCoins(body.data, 1, <<>>)

\* outcome of session.get: a transport exception (timeout included) or a status
Answer(k, status) == [k |-> k, status |-> status]
Answers == {Answer("exception", 0), Answer("response", OK),
            Answer("response", RateLimited), Answer("response", 500)}

(***************************************************************************)
(* DexScreener: get_dexscreener_price and the liquidity lookup of          *)
(* scan_for_opportunities.                                                 *)
(***************************************************************************)
Liquidity(k, usd) == [k |-> k, usd |-> usd]
Pair(chainId, dexId, priceUsd, liquidity) ==
    [chainId |-> chainId, dexId |-> dexId, priceUsd |-> priceUsd, liquidity |-> liquidity]

\* pairs of a /latest/dex/tokens payload; priceUsd "" stands for an absent or empty price
RayHigh == Pair("solana", "raydium", "1.5", Liquidity("obj", Num(100001)))
RayEdge == Pair("solana", "raydium", "1.5", Liquidity("obj", Num(100000)))
RayMin == Pair("solana", "raydium", "1.5", Liquidity("obj", Num(50000)))
RayLow == Pair("solana", "raydium", "n/a", Liquidity("obj", Num(49999)))
RayNullUsd == Pair("solana", "raydium", "1.5", Liquidity("obj", Null))
RayNoUsd == Pair("solana", "raydium", "1.5", Liquidity("obj", Missing))
OrcaNoLiquidity == Pair("solana", "orca", "1.5", Liquidity("missing", Missing))
EthNullLiquidity == Pair("ethereum", "raydium", "", Liquidity("null", Missing))

PairKinds == {RayHigh, RayEdge, RayMin, RayLow, RayNullUsd, RayNoUsd, OrcaNoLiquidity, EthNullLiquidity}

\* the `pairs` lists of the modelled payloads: every list of at most one pair,
\* and lists of several pairs that exercise the sort and the two searches
PairLists ==
    SeqsUpTo(PairKinds, 1)
    \cup { <<RayEdge, RayHigh>>, <<RayHigh, RayLow>>, <<RayLow, RayHigh>>,
           <<RayHigh, RayNullUsd>>, <<RayNullUsd, RayHigh>>,
           <<OrcaNoLiquidity, RayLow>>, <<OrcaNoLiquidity, EthNullLiquidity>>,
           <<OrcaNoLiquidity, RayMin, RayEdge>> }

DexBody(k, pairs) == [k |-> k, pairs |-> pairs]
DexResponse(k, status, body) == [k |-> k, status |-> status, body |-> body]

\* no body has been read
NoDexBody == DexBody("none", <<>>)

\* outcome of session.get(url): a transport exception, a status other than 200, or 200
DexAnswers == {Answer("exception", 0), Answer("response", 500), Answer("response", OK)}

\* outcome of resp.json(): unparsable, a document without pairs, or a list of pairs
DexBodies ==
    {DexBody("json_error", <<>>), DexBody("no_pairs", <<>>)}
    \cup {DexBody("pairs", p) : p \in PairLists}

\* outcome of session.get(url) followed, after a 200, by resp.json()
DexResponses ==
    {DexResponse(a.k, a.status, NoDexBody) : a \in {x \in DexAnswers : x.k = "exception" \/ x.status # OK}}
    \cup {DexResponse("response", OK, b) : b \in DexBodies}

None == [k |-> "none", v |-> 0]
\* a float, in millionths
Float(v) == [k |-> "float", v |-> v]

\* float(pair['priceUsd']): None stands for the ValueError
ParseFloat(s) ==
    CASE s = "1.5" -> Float(1500000)
      [] s = "0.000021" -> Float(21)
      [] OTHER -> None

\* p.get('liquidity', {}).get('usd', 0), for a liquidity that is not null
UsdOf(p) ==
    IF p.liquidity.k = "missing" \/ p.liquidity.usd.k = "missing" THEN Num(0) ELSE p.liquidity.usd

\* sorted(..., reverse=True) is stable: q goes behind every pair whose key is not smaller
RECURSIVE InsertDesc(_, _)
InsertDesc(sorted, q) ==
    IF sorted = <<>> THEN <<q>>
    ELSE IF UsdOf(sorted[Len(sorted)]).v >= UsdOf(q).v THEN Append(sorted, q)
    ELSE Append(InsertDesc(SubSeq(sorted, 1, Len(sorted) - 1), q), sorted[Len(sorted)])

RECURSIVE SortedDesc(_)
SortedDesc(pairs) ==
    IF pairs = <<>> THEN <<>>
    ELSE InsertDesc(SortedDesc(SubSeq(pairs, 1, Len(pairs) - 1)), pairs[Len(pairs)])

\* first pair of ps satisfying the test, as a sequence of at most one pair
FirstRaydium(ps) ==
    LET hits == {i \in 1..Len(ps) : ps[i].chainId = "solana" /\ ps[i].dexId = "raydium" /\ ps[i].priceUsd # ""}
    IN  IF hits = {} THEN <<>> ELSE <<ps[CHOOSE i \in hits : \A j \in hits : i <= j]>>

FirstSolana(ps) ==
    LET hits == {i \in 1..Len(ps) : ps[i].chainId = "solana" /\ ps[i].priceUsd # ""}
    IN  IF hits = {} THEN <<>> ELSE <<ps[CHOOSE i \in hits : \A j \in hits : i <= j]>>

\* get_dexscreener_price: None or a float; every exception ends in None
GetDexscreenerPrice(r) ==
    IF r.k = "exception" \/ r.status # OK THEN None
    ELSE IF r.body.k # "pairs" \/ r.body.pairs = <<>> THEN None
    ELSE LET ps == r.body.pairs IN
         \* key function: AttributeError on a null liquidity
         IF \E i \in 1..Len(ps) : ps[i].liquidity.k = "null" THEN None
         \* comparison of the keys: TypeError on a null usd once two keys are compared
         ELSE IF Len(ps) >= 2 /\ \E i \in 1..Len(ps) : UsdOf(ps[i]).k = "null" THEN None
         ELSE IF FirstRaydium(SortedDesc(ps)) # <<>> THEN ParseFloat(FirstRaydium(SortedDesc(ps))[1].priceUsd)
         ELSE IF FirstSolana(ps) # <<>> THEN ParseFloat(FirstSolana(ps)[1].priceUsd)
         ELSE None

\* lines 194-206: liquidity_usd after the try block (a number, or null)
LiquidityUsd(r) ==
    IF r.k = "exception" \/ r.status # OK THEN Num(0)
    ELSE IF r.body.k # "pairs" \/ r.body.pairs = <<>> THEN Num(0)
    ELSE LET ps == r.body.pairs
             hits == {i \in 1..Len(ps) : ps[i].dexId = "raydium"}
         IN  IF hits = {} THEN Num(0)
             ELSE LET raydium_pair == ps[CHOOSE i \in hits : \A j \in hits : i <= j]
                  IN  IF raydium_pair.liquidity.k = "null" THEN Num(0)
                      ELSE UsdOf(raydium_pair)

\* lines 209-219 on liquidity_usd: the branch the entry takes
Evaluate(liquidity_usd) ==
    IF liquidity_usd.k = "null" THEN "type_error"
    ELSE IF liquidity_usd.v < MinLiquidity THEN "low_liquidity"
    ELSE IF liquidity_usd.v > HighLiquidity THEN "high_potential"
    ELSE "logged"

\* tables of the two lookups over the modelled responses
PriceOf == [r \in DexResponses |-> GetDexscreenerPrice(r)]
BranchOf == [r \in DexResponses |-> Evaluate(LiquidityUsd(r))]

(***************************************************************************)
(* run_bot and scan_for_opportunities.                                     *)
(***************************************************************************)
Min(a, b) == IF a <= b THEN a ELSE b

\* faulty variant of TokensToScan: the slice is missing
TokensToScan_all(tk) == tk

\* list(self.tokens.items())[:30]
TokensToScan(tk) == SubSeq(tk, 1, Min(ScanLimit, Len(tk)))

\* scan_for_opportunities up to its first await: the first entry's price request
StartCycle(tk) ==
    /\ scanList' = TokensToScan(tk)
    /\ outcome' = "none"
    /\ ds_price' = None
    /\ IF TokensToScan(tk) = <<>>
       THEN idx' = 0 /\ pc' = "sleep" /\ scanning' = scanning
       ELSE idx' = 1 /\ pc' = "scan_price" /\ scanning' = scanning + 1

\* faulty variant of Enabled: the cycle runs whatever the run flag is
Enabled_always(flag) == TRUE

\* `if bot.running:` reads the run flag
Enabled(flag) == flag

\* one pass of `while True:` up to its first await, with bot.tokens = tk
WhileBody(tk) ==
    /\ flagRead' = running
    /\ IF Enabled(running)
       THEN cycles' = 1 /\ StartCycle(tk)
       ELSE /\ cycles' = 0
            /\ pc' = "sleep"
            /\ scanList' = <<>>
            /\ idx' = 0
            /\ ds_price' = None
            /\ outcome' = "none"
            /\ scanning' = scanning

\* fetch_solana_tokens is entered: the first discovery request is sent
FetchEnter ==
    /\ before' = tokens
    /\ attempt' = 0
    /\ fetched' = "none"
    /\ pc' = "fetch_get"
    /\ refreshing' = refreshing + 1
    /\ UNCHANGED <<tokens, elapsed, scanVars>>

\* fetch_solana_tokens returns with bot.tokens = tk (its locals are gone);
\* run_bot goes on into its loop
Return(tk) ==
    /\ attempt' = 0
    /\ elapsed' = 0
    /\ refreshing' = refreshing - 1
    /\ IF caller = "run_bot"
       THEN WhileBody(tk)
       ELSE pc' = "returned" /\ UNCHANGED scanVars

\* faulty variant of Continue: the first failed attempt ends the refresh with
\* the fallback catalog
Continue_giveup(tk) ==
    /\ tokens' = Seed
    /\ fetched' = "fallback"
    /\ Return(Seed)

\* faulty variant of Continue: the attempts used up, the catalog is left as
\* the last attempt left it and no fallback is assigned
Continue_keep(tk) ==
    IF attempt + 1 < Attempts
    THEN /\ attempt' = attempt + 1
         /\ tokens' = tk
         /\ pc' = "fetch_get"
         /\ UNCHANGED <<fetched, elapsed, refreshing, scanVars>>
    ELSE /\ tokens' = tk
         /\ fetched' = "fallback"
         /\ Return(tk)

\* the next pass of `for attempt in range(5)` with bot.tokens = tk, or, the
\* attempts used up, the fallback catalog
Continue(tk) ==
    IF attempt + 1 < Attempts
    THEN /\ attempt' = attempt + 1
         /\ tokens' = tk
         /\ pc' = "fetch_get"
         /\ UNCHANGED <<fetched, elapsed, refreshing, scanVars>>
    ELSE /\ tokens' = Seed
         /\ fetched' = "fallback"
         /\ Return(Seed)

\* run_bot starts: `if not bot.tokens: await bot.fetch_solana_tokens()`
RunBotStart ==
    /\ pc = "startup"
    /\ IF tokens = <<>>
       THEN FetchEnter
       ELSE /\ WhileBody(tokens)
            /\ UNCHANGED <<tokens, before, attempt, fetched, elapsed, refreshing>>
    /\ UNCHANGED <<caller, receipt, jup, jupPc, ctlVars>>

\* bot.fetch_solana_tokens() awaited directly on a bot that has a catalog or none
CallFetch ==
    /\ pc = "call"
    /\ FetchEnter
    /\ UNCHANGED <<caller, receipt, jup, jupPc, ctlVars>>

\* session.get answers
FetchAnswer(a) ==
    /\ pc = "fetch_get"
    /\ IF a.k = "exception"
       THEN pc' = "fetch_sleep_exc" /\ UNCHANGED <<tokens, attempt, fetched, elapsed, refreshing, scanVars>>
       ELSE IF a.status = RateLimited
       THEN pc' = "fetch_sleep_429" /\ UNCHANGED <<tokens, attempt, fetched, elapsed, refreshing, scanVars>>
       ELSE IF a.status # OK
       THEN Continue(tokens)
       ELSE pc' = "fetch_json" /\ UNCHANGED <<tokens, attempt, fetched, elapsed, refreshing, scanVars>>
    /\ UNCHANGED <<caller, before, receipt, jup, jupPc, ctlVars>>

\* resp.json() answers and the catalog is rebuilt from it
FetchBody(b) ==
    /\ pc = "fetch_json"
    /\ LET r == ProcessPayload(b, tokens) IN
       IF r.raised
       THEN /\ tokens' = r.tokens
            /\ pc' = "fetch_sleep_exc"
            /\ UNCHANGED <<attempt, fetched, elapsed, refreshing, scanVars>>
       ELSE IF r.tokens # <<>>
       THEN /\ tokens' = r.tokens
            /\ fetched' = "loaded"
            /\ Return(r.tokens)
       ELSE Continue(r.tokens)
    /\ UNCHANGED <<caller, before, receipt, jup, jupPc, ctlVars>>

\* asyncio.sleep(60 * (attempt + 1)) is over
FetchBackoffDone ==
    /\ pc = "fetch_sleep_429"
    /\ Continue(tokens)
    /\ UNCHANGED <<caller, before, receipt, jup, jupPc, ctlVars>>

\* asyncio.sleep(30) of the exception handler is over
FetchErrorSleepDone ==
    /\ pc = "fetch_sleep_exc"
    /\ Continue(tokens)
    /\ UNCHANGED <<caller, before, receipt, jup, jupPc, ctlVars>>

\* self.config["simulate"]
simulate == TRUE

\* faulty variant of Execute: the flagged entry is traded and, the simulate
\* flag not being read, the transaction is submitted
Execute_live(branch, sim) == IF branch = "high_potential" THEN "submitted" ELSE "none"

\* what lines 212-220 do with the trade executor for an entry that took
\* `branch`: the entry is logged (`# TODO: add real diff check and arb
\* execution here`), no executor is called and config["simulate"] is not read
Execute(branch, sim) == "none"

\* faulty variant of SkipEntry: an entry without a price is evaluated like the others
SkipEntry_never(price) == FALSE

\* `if ds_price is None: continue`
SkipEntry(price) == price = None

\* end of the loop body of scan_for_opportunities: the next entry's price
\* request, or the cycle is over and run_bot sleeps
NextEntry ==
    IF idx < Len(scanList)
    THEN idx' = idx + 1 /\ pc' = "scan_price" /\ scanning' = scanning
    ELSE idx' = idx /\ pc' = "sleep" /\ scanning' = scanning - 1

\* get_dexscreener_price returns r for the entry at idx: lines 189-197, up to
\* the liquidity request or, the entry skipped, to the next suspension
PriceResponse(r) ==
    /\ ds_price' = PriceOf[r]
    /\ IF SkipEntry(PriceOf[r])
       THEN outcome' = "no_price" /\ NextEntry
       ELSE pc' = "scan_liq" /\ UNCHANGED <<idx, outcome, scanning>>

\* session.get of get_dexscreener_price (line 162) answers: an exception or a
\* status other than 200 makes the lookup return None; after a 200 the task
\* is suspended at resp.json() (line 166)
PriceAnswer(a) ==
    /\ pc = "scan_price"
    /\ IF a.k = "exception" \/ a.status # OK
       THEN PriceResponse(DexResponse(a.k, a.status, NoDexBody))
       ELSE pc' = "scan_price_json" /\ UNCHANGED <<ds_price, idx, outcome, scanning>>
    /\ UNCHANGED <<tokens, caller, before, attempt, fetched, elapsed, flagRead, cycles, scanList,
                   refreshing, receipt, jup, jupPc, ctlVars>>

\* resp.json() of get_dexscreener_price (line 166) answers and the lookup returns
PriceBody(b) ==
    /\ pc = "scan_price_json"
    /\ PriceResponse(DexResponse("response", OK, b))
    /\ UNCHANGED <<tokens, caller, before, attempt, fetched, elapsed, flagRead, cycles, scanList,
                   refreshing, receipt, jup, jupPc, ctlVars>>

\* the liquidity lookup of the entry at idx has answered r: lines 200-220 and
\* on to the next suspension; a null liquidity_usd raises TypeError at line
\* 209, outside every try block: the task ends
LiquidityResponse(r) ==
    /\ outcome' = BranchOf[r]
    /\ receipt' = Execute(BranchOf[r], simulate)
    /\ IF BranchOf[r] = "type_error"
       THEN pc' = "dead" /\ idx' = idx /\ scanning' = scanning - 1
       ELSE NextEntry

\* session.get of the liquidity lookup (line 197) answers: after an exception
\* or a status other than 200 liquidity_usd stays 0; after a 200 the task is
\* suspended at resp.json() (line 199)
LiquidityAnswer(a) ==
    /\ pc = "scan_liq"
    /\ IF a.k = "exception" \/ a.status # OK
       THEN LiquidityResponse(DexResponse(a.k, a.status, NoDexBody))
       ELSE pc' = "scan_liq_json" /\ UNCHANGED <<idx, outcome, scanning, receipt>>
    /\ UNCHANGED <<tokens, caller, before, attempt, fetched, elapsed, flagRead, cycles, scanList,
                   ds_price, refreshing, jup, jupPc, ctlVars>>

\* resp.json() of the liquidity lookup (line 199) answers
LiquidityBody(b) ==
    /\ pc = "scan_liq_json"
    /\ LiquidityResponse(DexResponse("response", OK, b))
    /\ UNCHANGED <<tokens, caller, before, attempt, fetched, elapsed, flagRead, cycles, scanList,
                   ds_price, refreshing, jup, jupPc, ctlVars>>

\* faulty variant of Tick: the cycle is started as a task of its own and not
\* awaited, so the next tick comes while it is still in progress
Tick_overlapping ==
    /\ pc \in {"sleep", "scan_price", "scan_price_json", "scan_liq", "scan_liq_json"}
    /\ elapsed' = Min(elapsed + 1, RefreshPeriodTicks)
    /\ WhileBody(tokens)
    /\ UNCHANGED <<tokens, caller, before, attempt, fetched, refreshing, receipt, jup, jupPc, ctlVars>>

\* asyncio.sleep(180) is over: the next scheduler tick
Tick ==
    /\ pc = "sleep"
    /\ elapsed' = Min(elapsed + 1, RefreshPeriodTicks)
    /\ WhileBody(tokens)
    /\ UNCHANGED <<tokens, caller, before, attempt, fetched, refreshing, receipt, jup, jupPc, ctlVars>>

(***************************************************************************)
(* Control plane.                                                          *)
(***************************************************************************)
Response(op, cred, code, body) == [op |-> op, cred |-> cred, code |-> code, body |-> body]
NoResponse == Response("none", "", 0, "")

\* faulty variant of Authorized: every bearer credential is accepted
Authorized_any(cred) == TRUE

\* verify_api_key
Authorized(cred) == cred = API_KEY

\* faulty variant of FlagAfterStart: /start toggles the run flag
FlagAfterStart_toggle(flag) == ~flag

\* bot.running = True
FlagAfterStart(flag) == TRUE

\* bot.running = False
FlagAfterStop(flag) == FALSE

Respond(r) == resp' = r /\ prev' = resp

(***************************************************************************)
(* Jupiter: get_jupiter_quote and the /jup-test handler.                   *)
(***************************************************************************)
\* a route object; "" stands for an absent key
Route(inAmount, outAmount, priceImpactPct) ==
    [k |-> "route", inAmount |-> inAmount, outAmount |-> outAmount, priceImpactPct |-> priceImpactPct]
QuoteFull == Route("50000000", "7000000", "0.01")
QuoteNoImpact == Route("50000000", "6900000", "")
RouteNoInAmount == Route("", "7000000", "0.01")
RouteEmpty == Route("", "", "")
NullRoute == [k |-> "null", inAmount |-> "", outAmount |-> "", priceImpactPct |-> ""]

\* the value of the "data" key of the payload: absent, null, a list, a string,
\* an object (of `size` keys) or a number (`size`)
JupData(k, routes, str, size) == [k |-> k, routes |-> routes, str |-> str, size |-> size]
JupDatas ==
    { JupData("missing", <<>>, "", 0),
      JupData("null", <<>>, "", 0),
      JupData("list", <<>>, "", 0),
      JupData("list", <<QuoteFull>>, "", 0),
      JupData("list", <<QuoteNoImpact, QuoteFull>>, "", 0),
      JupData("list", <<RouteNoInAmount>>, "", 0),
      JupData("list", <<RouteEmpty>>, "", 0),
      JupData("list", <<NullRoute, QuoteFull>>, "", 0),
      JupData("str", <<>>, "error", 0),
      JupData("str", <<>>, "", 0),
      JupData("object", <<>>, "", 0),
      JupData("object", <<>>, "", 1),
      JupData("num", <<>>, "", 0),
      JupData("num", <<>>, "", 5) }

\* body of an answer: unparsable, a JSON list, or a JSON object
JupBody(k, data) == [k |-> k, data |-> data]
JupBodies ==
    { JupBody("json_error", JupData("missing", <<>>, "", 0)),
      JupBody("list", JupData("missing", <<>>, "", 0)) }
    \cup {JupBody("object", d) : d \in JupDatas}

\* outcome of session.get(JUPITER_QUOTE_URL) followed by resp.json()
JupiterAnswer(k, status, body) == [k |-> k, status |-> status, body |-> body]
JupiterAnswers ==
    {JupiterAnswer("exception", 0, JupBody("none", JupData("missing", <<>>, "", 0)))}
    \cup {JupiterAnswer("response", st, b) : st \in {OK, 400, RateLimited, 500}, b \in JupBodies}

\* s[0] of a non-empty string
FirstChar(s) == CASE s = "error" -> "e" [] OTHER -> s

Quoted(route) == [k |-> "quote", v |-> route]
Str(s) == [k |-> "str", v |-> s]

\* routes[0]; None stands for the exception of a value that cannot be indexed with 0
First(data) ==
    CASE data.k = "list" -> IF data.routes[1].k = "null" THEN None ELSE Quoted(data.routes[1])
      [] data.k = "str"  -> Str(FirstChar(data.str))
      [] OTHER           -> None

\* bool(routes)
Truthy(data) ==
    CASE data.k = "list"   -> data.routes # <<>>
      [] data.k = "str"    -> data.str # ""
      [] data.k = "object" -> data.size # 0
      [] data.k = "num"    -> data.size # 0
      [] OTHER             -> FALSE

\* get_jupiter_quote on the provider's answer r: every exception is caught
\* and None returned
GetJupiterQuote(r) ==
    IF r.k = "exception" THEN None
    ELSE IF r.status # OK THEN None
    ELSE IF r.body.k # "object" THEN None
    ELSE IF Truthy(r.body.data) THEN First(r.body.data) ELSE None

\* no get_jupiter_quote call has been made
NoCall == [answer |-> JupiterAnswer("none", 0, JupBody("none", JupData("missing", <<>>, "", 0))),
           result |-> None]

NoJupBody == JupBody("none", JupData("missing", <<>>, "", 0))

\* what session.get gives the /jup-test handler: an exception, a status other
\* than 200, or 200
JupTestAnswers ==
    { JupiterAnswer("exception", 0, NoJupBody),
      JupiterAnswer("response", 500, NoJupBody),
      JupiterAnswer("response", OK, NoJupBody) }

\* what jup_test answers once get_jupiter_quote has returned quote: an
\* exception of the handler is answered 500 by the framework
JupTestResponse(quote) ==
    IF quote = None \/ quote = Quoted(RouteEmpty)
    THEN Response("jup_test", "", OK, "error: No route returned")
    ELSE IF quote.k = "str" \/ quote.v.inAmount = "" \/ quote.v.outAmount = ""
    THEN Response("jup_test", "", 500, "Internal Server Error")
    ELSE Response("jup_test", "", OK,
                  IF quote.v.priceImpactPct = ""
                  THEN "inAmount, outAmount, priceImpactPct: null"
                  ELSE "inAmount, outAmount, priceImpactPct")

loopVars == <<tokens, pc, caller, before, attempt, elapsed, fetched, refreshing, receipt, scanVars>>

\* POST /start
Start(cred) ==
    /\ IF Authorized(cred)
       THEN running' = FlagAfterStart(running) /\ Respond(Response("start", cred, OK, "status: started"))
       ELSE running' = running /\ Respond(Response("start", cred, Unauthorized, "detail: Invalid API key"))
    /\ UNCHANGED <<loopVars, jup, jupPc>>

\* POST /stop
Stop(cred) ==
    /\ IF Authorized(cred)
       THEN running' = FlagAfterStop(running) /\ Respond(Response("stop", cred, OK, "status: stopped"))
       ELSE running' = running /\ Respond(Response("stop", cred, Unauthorized, "detail: Invalid API key"))
    /\ UNCHANGED <<loopVars, jup, jupPc>>

\* GET /status
Status ==
    /\ Respond(Response("status", "", OK, IF running THEN "running: true" ELSE "running: false"))
    /\ UNCHANGED <<running, loopVars, jup, jupPc>>

\* GET /
Root ==
    /\ Respond(Response("root", "", OK, "message: Solana arbitrage bot is running, owner: DEV"))
    /\ UNCHANGED <<running, loopVars, jup, jupPc>>

\* no /jup-test request is in flight
NoJupTest == [get |-> 0, json |-> 0]

\* GET /jup-test is received, no credential asked: the handler runs up to
\* session.get of get_jupiter_quote (line 233), the quote-provider request.
\* The handler has no condition; the number in flight is capped at MaxJupTests.
JupTestRequest ==
    /\ jupPc.get + jupPc.json < MaxJupTests
    /\ jupPc' = [jupPc EXCEPT !.get = @ + 1]
    /\ UNCHANGED <<loopVars, jup, ctlVars>>

\* session.get answers one of the handlers suspended there: an exception or a
\* status other than 200 makes get_jupiter_quote return None and the handler
\* answer; after a 200 the handler is suspended at resp.json() (line 242)
JupTestAnswer(a) ==
    /\ jupPc.get > 0
    /\ IF a.k = "exception" \/ a.status # OK
       THEN /\ jupPc' = [jupPc EXCEPT !.get = @ - 1]
            /\ Respond(JupTestResponse(GetJupiterQuote(a)))
       ELSE /\ jupPc' = [jupPc EXCEPT !.get = @ - 1, !.json = @ + 1]
            /\ UNCHANGED <<resp, prev>>
    /\ UNCHANGED <<running, loopVars, jup>>

\* faulty variant of JupTestBody: the handler also starts the bot
JupTestBody_starting(b) ==
    /\ jupPc.json > 0
    /\ jupPc' = [jupPc EXCEPT !.json = @ - 1]
    /\ Respond(JupTestResponse(GetJupiterQuote(JupiterAnswer("response", OK, b))))
    /\ running' = TRUE
    /\ UNCHANGED <<loopVars, jup>>

\* resp.json() answers one of the handlers suspended there: get_jupiter_quote
\* returns and the handler answers
JupTestBody(b) ==
    /\ jupPc.json > 0
    /\ jupPc' = [jupPc EXCEPT !.json = @ - 1]
    /\ Respond(JupTestResponse(GetJupiterQuote(JupiterAnswer("response", OK, b))))
    /\ UNCHANGED <<running, loopVars, jup>>

(***************************************************************************)
(* The program: the background task and the control plane.                 *)
(***************************************************************************)
\* one discovery body for each way lines 110-140 can end (kind of body,
\* catalog built, exception or not): bodies that agree on these give the same
\* step
DiscoveryCases ==
    { CHOOSE b \in DiscoveryBodies : <<b.k, ProcessPayload(b, <<>>)>> = c :
        c \in {<<x.k, ProcessPayload(x, <<>>)>> : x \in DiscoveryBodies} }

\* one DexScreener body for each value get_dexscreener_price can return after a 200
DexPriceCases ==
    { CHOOSE b \in DexBodies : PriceOf[DexResponse("response", OK, b)] = v :
        v \in {PriceOf[DexResponse("response", OK, x)] : x \in DexBodies} }

\* one DexScreener body for each branch the liquidity lookup can lead to after a 200
DexLiquidityCases ==
    { CHOOSE b \in DexBodies : BranchOf[DexResponse("response", OK, b)] = v :
        v \in {BranchOf[DexResponse("response", OK, x)] : x \in DexBodies} }

\* one quote-provider body for each answer jup_test can give after a 200
JupTestCases ==
    { CHOOSE b \in JupBodies : JupTestResponse(GetJupiterQuote(JupiterAnswer("response", OK, b))) = v :
        v \in {JupTestResponse(GetJupiterQuote(JupiterAnswer("response", OK, x))) : x \in JupBodies} }

Init ==
    /\ running = FALSE
    /\ tokens = <<>>
    /\ pc = "startup"
    /\ caller = "run_bot"
    /\ before = <<>>
    /\ attempt = 0
    /\ elapsed = 0
    /\ flagRead = FALSE
    /\ cycles = 0
    /\ scanList = <<>>
    /\ idx = 0
    /\ ds_price = None
    /\ outcome = "none"
    /\ fetched = "none"
    /\ resp = NoResponse
    /\ prev = NoResponse
    /\ scanning = 0
    /\ refreshing = 0
    /\ receipt = "none"
    /\ jup = NoCall
    /\ jupPc = NoJupTest

Next ==
    \/ RunBotStart
    \/ \E a \in Answers : FetchAnswer(a)
    \/ \E b \in DiscoveryCases : FetchBody(b)
    \/ FetchBackoffDone
    \/ FetchErrorSleepDone
    \/ \E a \in DexAnswers : PriceAnswer(a)
    \/ \E b \in DexPriceCases : PriceBody(b)
    \/ \E a \in DexAnswers : LiquidityAnswer(a)
    \/ \E b \in DexLiquidityCases : LiquidityBody(b)
    \/ Tick
    \/ \E c \in Credentials : Start(c)
    \/ \E c \in Credentials : Stop(c)
    \/ Status
    \/ Root
    \/ JupTestRequest
    \/ \E a \in JupTestAnswers : JupTestAnswer(a)
    \/ \E b \in JupTestCases : JupTestBody(b)

Spec == Init /\ [][Next]_vars

\* the steps of the run_bot task
LoopNext ==
    \/ RunBotStart
    \/ \E a \in Answers : FetchAnswer(a)
    \/ \E b \in DiscoveryCases : FetchBody(b)
    \/ FetchBackoffDone
    \/ FetchErrorSleepDone
    \/ \E a \in DexAnswers : PriceAnswer(a)
    \/ \E b \in DexPriceCases : PriceBody(b)
    \/ \E a \in DexAnswers : LiquidityAnswer(a)
    \/ \E b \in DexLiquidityCases : LiquidityBody(b)
    \/ Tick

\* the event loop schedules the task whenever it can run: every request is
\* answered or times out and every asyncio.sleep ends
FairSpec == Init /\ [][Next]_vars /\ WF_vars(LoopNext)

(***************************************************************************)
(* fetch_solana_tokens called on its own, on a bot that has no catalog yet  *)
(* (bot.tokens is {} at line 60 and the call of run_bot is guarded by       *)
(* `if not bot.tokens`).                                                   *)
(***************************************************************************)
InitRefresh ==
    /\ running \in BOOLEAN
    /\ tokens = <<>>
    /\ pc = "call"
    /\ caller = "direct"
    /\ before = <<>>
    /\ attempt = 0
    /\ elapsed = 0
    /\ flagRead = FALSE
    /\ cycles = 0
    /\ scanList = <<>>
    /\ idx = 0
    /\ ds_price = None
    /\ outcome = "none"
    /\ fetched = "none"
    /\ resp = NoResponse
    /\ prev = NoResponse
    /\ scanning = 0
    /\ refreshing = 0
    /\ receipt = "none"
    /\ jup = NoCall
    /\ jupPc = NoJupTest

NextRefresh ==
    \/ CallFetch
    \/ \E a \in Answers : FetchAnswer(a)
    \/ \E b \in DiscoveryBodies : FetchBody(b)
    \/ FetchBackoffDone
    \/ FetchErrorSleepDone

RefreshSpec == InitRefresh /\ [][NextRefresh]_vars

\* every request ends, with a response or with an exception, and every
\* asyncio.sleep ends, so the coroutine always takes its next step
FairRefreshSpec == InitRefresh /\ [][NextRefresh]_vars /\ WF_vars(NextRefresh)

\* the catalogs line 140 can return with: a payload read to its end with at
\* least one qualifying coin
LoadedCatalogs ==
    { ProcessPayload(b, <<>>).tokens :
        b \in { x \in DiscoveryBodies : ~ProcessPayload(x, <<>>).raised
                                         /\ ProcessPayload(x, <<>>).tokens # <<>> } }

(***************************************************************************)
(* get_jupiter_quote awaited on its own, for every answer of the provider. *)
(***************************************************************************)
Pending == [k |-> "pending", v |-> 0]

InitQuote ==
    /\ running \in BOOLEAN
    /\ tokens = <<>>
    /\ pc = "call_quote"
    /\ caller = "direct"
    /\ before = <<>>
    /\ attempt = 0
    /\ elapsed = 0
    /\ flagRead = FALSE
    /\ cycles = 0
    /\ scanList = <<>>
    /\ idx = 0
    /\ ds_price = None
    /\ outcome = "none"
    /\ fetched = "none"
    /\ resp = NoResponse
    /\ prev = NoResponse
    /\ scanning = 0
    /\ refreshing = 0
    /\ receipt = "none"
    /\ jup \in {[answer |-> a, result |-> Pending] : a \in JupiterAnswers}
    /\ jupPc = NoJupTest

\* get_jupiter_quote returns
QuoteReturn ==
    /\ pc' = "returned"
    /\ jup' = [answer |-> jup.answer, result |-> GetJupiterQuote(jup.answer)]

\* get_jupiter_quote is entered and runs up to session.get (line 233)
QuoteCall ==
    /\ pc = "call_quote"
    /\ pc' = "quote_get"
    /\ UNCHANGED <<running, tokens, caller, before, attempt, elapsed, fetched, scanVars,
                   refreshing, receipt, resp, prev, jup, jupPc>>

\* session.get answers: an exception or a status other than 200 makes the
\* call return; after a 200 it is suspended at resp.json() (line 242)
QuoteAnswer ==
    /\ pc = "quote_get"
    /\ IF jup.answer.k = "exception" \/ jup.answer.status # OK
       THEN QuoteReturn
       ELSE pc' = "quote_json" /\ jup' = jup
    /\ UNCHANGED <<running, tokens, caller, before, attempt, elapsed, fetched, scanVars,
                   refreshing, receipt, resp, prev, jupPc>>

\* resp.json() answers and the call returns
QuoteBody ==
    /\ pc = "quote_json"
    /\ QuoteReturn
    /\ UNCHANGED <<running, tokens, caller, before, attempt, elapsed, fetched, scanVars,
                   refreshing, receipt, resp, prev, jupPc>>

NextQuote ==
    \/ QuoteCall
    \/ QuoteAnswer
    \/ QuoteBody

QuoteSpec == InitQuote /\ [][NextQuote]_vars

(***************************************************************************)
(* The program with a discovery provider that lists more coins than one    *)
(* cycle scans, and a DexScreener that gives three kinds of bodies.        *)
(***************************************************************************)
\* one coin more than tokens_to_scan holds
BulkCoins == ScanLimit + 1

\* a /coins/markets payload of BulkCoins qualifying coins with symbols "1", "2", ...
BulkBody ==
    [k |-> "list",
     data |-> [i \in 1..BulkCoins |->
                Coin(Num(2000000), Platforms("obj", "addr" \o ToString(i)), ToString(i))]]

\* a price with high liquidity, no price, a price with a null liquidity
BulkDexBodies ==
    { DexBody("pairs", <<RayHigh>>),
      DexBody("pairs", <<RayLow>>),
      DexBody("pairs", <<RayNullUsd>>) }

NextBulk ==
    \/ RunBotStart
    \/ \E a \in Answers : FetchAnswer(a)
    \/ FetchBody(BulkBody)
    \/ FetchBackoffDone
    \/ FetchErrorSleepDone
    \/ \E a \in DexAnswers : PriceAnswer(a)
    \/ \E b \in BulkDexBodies : PriceBody(b)
    \/ \E a \in DexAnswers : LiquidityAnswer(a)
    \/ \E b \in BulkDexBodies : LiquidityBody(b)
    \/ Tick
    \/ Start(API_KEY)
    \/ Stop(API_KEY)

BulkSpec == Init /\ [][NextBulk]_vars

(***************************************************************************)
(* Properties.                                                             *)
(***************************************************************************)
InPrice == pc \in {"scan_price", "scan_price_json"}
InLiquidity == pc \in {"scan_liq", "scan_liq_json"}
InScan == InPrice \/ InLiquidity
InRefresh == pc \in {"fetch_get", "fetch_json", "fetch_sleep_429", "fetch_sleep_exc"}
ControlStep == resp' # resp \/ prev' # prev \/ running' # running
HandlerStep == ControlStep \/ jupPc' # jupPc

\* C1 (auth gate): a /start or /stop request whose bearer credential differs
\* from the API key is answered 401 and leaves the run flag as it was.
C1_AuthGate ==
    [][(ControlStep /\ resp'.op \in {"start", "stop"} /\ resp'.cred # API_KEY)
         => (resp'.code = Unauthorized /\ running' = running)]_vars

\* a /stop with a wrong credential was rejected after an authenticated /start,
\* and the flag is still true
C1_Witness ==
    /\ prev.op = "start" /\ prev.code = OK
    /\ resp.op = "stop" /\ resp.cred # API_KEY /\ resp.code = Unauthorized
    /\ running = TRUE

\* C2 (idempotent control transitions): after two consecutive authenticated
\* /start calls the run flag is true and both bodies are {status: started};
\* after two consecutive authenticated /stop calls it is false and both
\* bodies are {status: stopped}.
C2_Idempotent ==
    /\ (prev.op = "start" /\ prev.code = OK /\ resp.op = "start" /\ resp.code = OK)
         => (running = TRUE /\ resp.body = prev.body /\ resp.body = "status: started")
    /\ (prev.op = "stop" /\ prev.code = OK /\ resp.op = "stop" /\ resp.code = OK)
         => (running = FALSE /\ resp.body = prev.body /\ resp.body = "status: stopped")

\* two authenticated /start calls in a row have been answered
C2_Witness ==
    /\ prev.op = "start" /\ prev.code = OK
    /\ resp.op = "start" /\ resp.code = OK
    /\ running = TRUE

\* C3 (catalog non-regression): a refresh that ends without a qualifying set
\* leaves the catalog as it was before the refresh, or as the seed set when
\* there was no catalog before.
C3_NonRegression ==
    (~InRefresh /\ fetched = "fallback")
        => tokens = (IF before = <<>> THEN Seed ELSE before)

\* the startup refresh, entered without a catalog, has ended without a
\* qualifying set and the idle loop sleeps with the seed set as its catalog
C3_Witness ==
    /\ pc = "sleep" /\ cycles = 0 /\ ~running
    /\ fetched = "fallback" /\ before = <<>> /\ tokens = Seed

\* C4 (catalog non-emptiness): once the first refresh has returned, and
\* whenever a scan cycle has started or is in progress, the catalog is not
\* empty, and the cycle has entries to scan.
C4_CatalogNonEmpty ==
    ((~InRefresh /\ fetched # "none") \/ InScan \/ cycles > 0)
        => (tokens # <<>> /\ (cycles > 0 => scanList # <<>>))

\* a cycle is in progress on the fallback catalog
C4_Witness == InScan /\ fetched = "fallback" /\ tokens = Seed /\ scanList = Seed

\* C5 (periodic refresh): the tick at which the refresh period has elapsed
\* since the last refresh refreshes the catalog, whatever the run flag is.
C5_PeriodicRefresh ==
    [][(elapsed' # elapsed /\ elapsed' >= RefreshPeriodTicks) => InRefresh']_vars

\* C6 (scan gating): on a tick, one scan cycle is run if the run flag was read
\* true and none, with no price request, if it was read false.
C6_ScanGating ==
    /\ (InScan \/ pc \in {"sleep", "dead"}) => cycles = (IF flagRead THEN 1 ELSE 0)
    /\ InScan => flagRead
    /\ (pc = "sleep" /\ ~flagRead) => (scanList = <<>> /\ idx = 0 /\ outcome = "none")

\* a cycle ran to its end on a tick whose flag was read true, and the flag has
\* been cleared since
C6_Witness ==
    /\ pc = "sleep" /\ flagRead /\ cycles = 1
    /\ idx = Len(scanList) /\ idx > 1 /\ ~running

\* C7 (coarse cancellation): with the run flag false, a cycle in progress goes
\* on until all its entries are processed.
C7_RunsToCompletion ==
    [][(InScan /\ ~running')
         => (InScan' \/ (pc' = "sleep" /\ idx' = Len(scanList')))]_vars

\* C8 (loop survival): the run_bot task never ends.
C8_LoopSurvives == pc # "dead"

\* C9 (per-entry failure isolation): when the processing of an entry ends, by
\* a result or by a failure, and entries remain, the next entry is processed.
C9_FailureIsolation ==
    [][(InScan /\ idx < Len(scanList) /\ ~(InScan' /\ idx' = idx))
         => (pc' = "scan_price" /\ idx' = idx + 1)]_vars

\* C10 (skip on absence): an entry whose price lookup returns None is not
\* evaluated (no liquidity request, no flagging), and the cycle goes on with
\* the next entry.
C10_SkipOnAbsence ==
    [][(InPrice /\ ~(InPrice' /\ idx' = idx) /\ ds_price' = None)
         => /\ outcome' = "no_price"
            /\ IF idx < Len(scanList)
               THEN pc' = "scan_price" /\ idx' = idx + 1
               ELSE pc' = "sleep"]_vars

\* the first entry had no price and the second entry's price is being looked up
C10_Witness == pc = "scan_price" /\ idx = 2 /\ outcome = "no_price" /\ ds_price = None

\* C11 (simulation containment): with config["simulate"] true, no transaction
\* is ever submitted, whatever number of cycles has run and whatever number of
\* entries has been flagged.
C11_SimulationContainment == simulate => receipt # "submitted"

\* a cycle later than the first one ended on an entry flagged high-potential,
\* and nothing was submitted
C11_Witness ==
    /\ pc = "sleep" /\ elapsed >= 1 /\ cycles = 1
    /\ outcome = "high_potential" /\ receipt = "none"

\* C14 (execution decision): the trade executor is invoked for an entry the
\* cycle finds worth trading. The cycle requests no quotes and computes no
\* profit; the only entries it singles out are those it logs as high-potential
\* at line 218, where the execution is left as a TODO.
C14_ExecutionDecision ==
    [][(InLiquidity /\ ~InLiquidity' /\ outcome' = "high_potential") => receipt' # "none"]_vars

\* C18 (strict sequencing): at most one scan cycle and at most one catalog
\* refresh is in progress, never both at once, and the loop task is suspended
\* inside the one that is in progress.
C18_StrictSequencing ==
    /\ scanning \in {0, 1} /\ refreshing \in {0, 1}
    /\ scanning + refreshing <= 1
    /\ (scanning = 1) <=> InScan
    /\ (refreshing = 1) <=> InRefresh

\* an authenticated /stop and then /start were handled while the second cycle
\* since the refresh was suspended on a DexScreener request
C18_Witness ==
    /\ InScan /\ scanning = 1 /\ refreshing = 0 /\ elapsed >= 1
    /\ prev.op = "stop" /\ prev.code = OK
    /\ resp.op = "start" /\ resp.code = OK

\* C16 (retry policy), as claimed: within a refresh, the discovery request is
\* sent again only after an answer with status 429.
C16_RetryOnlyAfter429 ==
    [][(InRefresh /\ attempt' = attempt + 1) => pc = "fetch_sleep_429"]_vars

\* C16, amended: within a refresh the request is sent again after every
\* outcome that gave no non-empty catalog (a 429 and an exception after their
\* sleep, another non-200 status and an empty qualifying set at once), one
\* attempt at a time; the refresh ends only with a non-empty catalog from a
\* payload or, after the last of the attempts, with the fallback catalog.
C16_RetryUntilLoaded ==
    [][/\ (InRefresh /\ InRefresh' /\ attempt' # attempt) => (attempt' = attempt + 1 /\ pc' = "fetch_get")
       /\ (InRefresh /\ ~InRefresh')
            => \/ fetched' = "loaded" /\ pc = "fetch_json" /\ tokens' # <<>>
               \/ fetched' = "fallback" /\ attempt = Attempts - 1 /\ tokens' = Seed]_vars

\* a request has been sent again after a payload that raised part way: the
\* catalog holds what was read before the exception
C16_Witness ==
    /\ pc = "fetch_get" /\ attempt >= 1
    /\ tokens # <<>> /\ before = <<>>

\* C17 (atomic catalog replacement): while fetch_solana_tokens is suspended,
\* bot.tokens is the catalog it was entered with. (The coroutine returns in the
\* step that completes a new catalog, so no suspension point sees one.)
C17_AtomicReplacement == InRefresh => tokens = before

\* C19 (bounded refresh termination): fetch_solana_tokens sends at most 5
\* requests, it returns, and when it has returned the catalog is a non-empty
\* catalog built from a payload or the four-entry fallback catalog.
C19_BoundedRefresh ==
    /\ [](attempt + 1 <= 5)
    /\ []((pc = "returned")
            => \/ fetched = "loaded" /\ tokens \in LoadedCatalogs /\ tokens # <<>>
               \/ fetched = "fallback" /\ tokens = Seed /\ Len(tokens) = 4)
    /\ <>(pc = "returned")

\* a refresh called on a started bot has returned with the fallback catalog,
\* its five requests used up
C19_Witness ==
    /\ pc = "returned" /\ fetched = "fallback" /\ tokens = Seed
    /\ refreshing = 0 /\ running

\* C15 (full catalog coverage), as claimed: a cycle that has run to its end
\* has processed every entry of the catalog, whatever its size.
C15_FullCoverage == (pc = "sleep" /\ cycles = 1) => idx = Len(tokens)

\* C15, amended: a cycle processes entries among the first 30 of the catalog
\* only, in catalog order and one after the other, none twice, and a cycle
\* that has run to its end has processed each of them.
C15_First30Coverage ==
    [][/\ InScan' => /\ scanList' = SubSeq(tokens', 1, Min(ScanLimit, Len(tokens')))
                     /\ idx' \in 1..Len(scanList')
       /\ (InScan /\ InScan' /\ idx' # idx) => idx' = idx + 1
       /\ (~InScan /\ InScan') => idx' = 1
       /\ (pc' = "sleep" /\ cycles' = 1) => idx' = Min(ScanLimit, Len(tokens'))]_vars

\* a cycle over a catalog of 31 entries has ended after its 30th entry
C15_Witness ==
    /\ pc = "sleep" /\ cycles = 1
    /\ Len(tokens) = ScanLimit + 1 /\ idx = ScanLimit /\ Len(scanList) = ScanLimit

\* C12 (control-plane isolation), as claimed: a step of a handler leaves the
\* state of the loop (the catalog with it) alone and sends no quote-provider
\* request.
C12_Isolation ==
    [][HandlerStep => (UNCHANGED loopVars /\ jupPc'.get <= jupPc.get)]_vars

\* C12, amended: no step of a handler reads or modifies the catalog or the
\* state of the loop; only /start and /stop write the run flag; /jup-test,
\* which sends a quote-provider request, leaves the run flag as it is from
\* its request to its answer.
C12_IsolationButJupTest ==
    [][HandlerStep => /\ UNCHANGED loopVars
                      /\ running' # running => resp'.op \in {"start", "stop"}
                      /\ jupPc' # jupPc => running' = running
                      /\ (resp' # resp /\ resp'.op \in {"jup_test", "status", "root"})
                           => running' = running]_vars

\* /jup-test has answered with a quote and two more /jup-test requests are in
\* flight, one suspended at session.get and one at resp.json(), while a cycle
\* is in progress on a started bot
C12_Witness ==
    /\ resp.op = "jup_test" /\ resp.code = OK /\ resp.body = "inAmount, outAmount, priceImpactPct"
    /\ jupPc.get = 1 /\ jupPc.json = 1
    /\ InScan /\ running /\ tokens # <<>>

\* C13 (quote provider sentinel): get_jupiter_quote returns the first route
\* when the provider answers 200 with a list of at least one route object,
\* and None after every other answer.
C13_QuoteSentinel ==
    (pc = "returned" /\ jup.result # Pending)
        => LET a == jup.answer
               routed == /\ a.k = "response" /\ a.status = OK /\ a.body.k = "object"
                         /\ a.body.data.k = "list" /\ a.body.data.routes # <<>>
                         /\ a.body.data.routes[1].k = "route"
           IN  IF routed THEN jup.result = Quoted(a.body.data.routes[1])
               ELSE jup.result = None

\* C20 (start responsiveness): once the run flag is true, a scan cycle is
\* eventually in progress, unless the flag is set to false before.
C20_StartResponsiveness == running ~> (InScan \/ ~running)

====
